---- MODULE Spec2Model ----
(***************************************************************************)
(* Model of the hybrid ranking pipeline of app/agent/curator_agent.py:     *)
(* CuratorAgent._heuristic_score, _pre_rank, _llm_score and rank_digests.  *)
(*                                                                         *)
(* Scores are kept in tenths (7.5 is 75), so every float of the code that  *)
(* the model produces is an exact integer: 1.2, 0.8, 0.7, 1.5, 3.0, 7.0    *)
(* and 10.0 are 12, 8, 7, 15, 30, 70 and 100.  A digest's text is kept as  *)
(* the token set _tokenize yields for "title summary" plus the length of  *)
(* its summary; its created_at is either absent or an age in hours.        *)
(***************************************************************************)
EXTENDS Integers, Sequences, FiniteSets, TLC

VARIABLES pc, digests, shortlisted, request, requests, response, path,
          failure, llm_scores, final_rows, ranked, raised,
          pr_pc, pr_arg, pr_in, pr_keep, pr_out

vars == <<pc, digests, shortlisted, request, requests, response, path,
          failure, llm_scores, final_rows, ranked, raised,
          pr_pc, pr_arg, pr_in, pr_keep, pr_out>>

rankVars == <<pc, digests, shortlisted, request, requests, response, path,
              failure, llm_scores, final_rows, ranked, raised>>

preRankVars == <<pr_pc, pr_arg, pr_in, pr_keep, pr_out>>

(***************************************************************************)
(* Bounds of the model and the one constant of the pipeline.               *)
(***************************************************************************)
MaxVar == 2

MaxEntries == 2

PRE_RANK_KEEP == 25

(***************************************************************************)
(* Builtins of the code.                                                   *)
(***************************************************************************)
Min2(a, b) == IF a <= b THEN a ELSE b

Max2(a, b) == IF a >= b THEN a ELSE b

(***************************************************************************)
(* The profile of app/profiles/user_profile.py as CuratorAgent.__init__    *)
(* derives it, restricted to the vocabulary the modelled digests use.      *)
(* "production" and "deployment" are interest tokens and boost terms.      *)
(***************************************************************************)
interest_tokens == {"retrieval", "backend", "systems", "production", "deployment"}

boost_terms == {"production", "deployment", "latency"}

down_terms == {"webinar", "register", "limited", "launch", "partnership"}

(***************************************************************************)
(* _heuristic_score: (score, why).                                         *)
(***************************************************************************)
Recency(d) ==
    IF d.has_created_at
    THEN LET age_h == Max2(0, d.age_h)
         IN  Max2(0, 15 - (age_h * 15) \div 24)
    ELSE 0

heuristic_score(d) ==
    LET interest_hits == Cardinality(d.toks \cap interest_tokens)
        boost_hits    == Cardinality(d.toks \cap boost_terms)
        down_hits     == Cardinality(d.toks \cap down_terms)
        base          == interest_hits * 12 + boost_hits * 8 - down_hits * 7
        recency       == Recency(d)
    IN  [score |-> base + recency,
         why   |-> [interest |-> interest_hits, boost |-> boost_hits,
                    recency |-> recency]]

(***************************************************************************)
(* list.sort(key=..., reverse=True): a stable sort, descending by key      *)
(* (elements with equal keys keep their order, also under reverse=True).   *)
(* Pairs are [key, val]: the elements with the greatest key come first, in *)
(* their order in the list, then those with the next key, and so on.       *)
(***************************************************************************)
KeysOf(pairs) == { pairs[i].key : i \in 1..Len(pairs) }

MaxKey(keys) == CHOOSE k \in keys : \A j \in keys : j <= k

WithKey(pairs, k) == SelectSeq(pairs, LAMBDA p : p.key = k)

RECURSIVE SortByKeys(_, _)
SortByKeys(pairs, keys) ==
    IF keys = {} THEN <<>>
    ELSE WithKey(pairs, MaxKey(keys)) \o SortByKeys(pairs, keys \ {MaxKey(keys)})

RECURSIVE Vals(_)
Vals(pairs) == IF pairs = <<>> THEN <<>> ELSE <<Head(pairs).val>> \o Vals(Tail(pairs))

ListSortReverse(pairs) == Vals(SortByKeys(pairs, KeysOf(pairs)))

(***************************************************************************)
(* _pre_rank.  Annotate is the loop body: d2 = dict(d) is a copy, so the   *)
(* input item stays as it was (orig) and only the copy carries the         *)
(* heuristic score and rationale.                                          *)
(***************************************************************************)
Annotate(d) ==
    LET h == heuristic_score(d)
    IN  [orig |-> d,
         copy |-> [id |-> d.id, toks |-> d.toks, summary_len |-> d.summary_len,
                   has_created_at |-> d.has_created_at, age_h |-> d.age_h,
                   heur_score |-> h.score, heur_why |-> h.why]]

\* The sort without reverse=True.
PreRankSortAscending(scored) ==
    ListSortReverse([i \in 1..Len(scored) |->
                        [key |-> 0 - scored[i].heur_score, val |-> scored[i]]])

PreRankSort(scored) ==
    ListSortReverse([i \in 1..Len(scored) |->
                        [key |-> scored[i].heur_score, val |-> scored[i]]])

Slice(s, keep) == SubSeq(s, 1, Min2(keep, Len(s)))

pre_rank(ds, keep) ==
    LET scored == [i \in 1..Len(ds) |-> Annotate(ds[i]).copy]
    IN  Slice(PreRankSort(scored), keep)

InputAfterPreRank(ds) == [i \in 1..Len(ds) |-> Annotate(ds[i]).orig]

(***************************************************************************)
(* _llm_score, request side: one block per shortlisted item, the summary   *)
(* interpolated as it is.                                                  *)
(***************************************************************************)
BuildRequest(sl) ==
    [i \in 1..Len(sl) |-> [id |-> sl[i].id, summary_len |-> sl[i].summary_len]]

(***************************************************************************)
(* _llm_score, response side.  A response is a service error, a text with  *)
(* no {...} span (_extract_json raises), a span json.loads rejects, or a   *)
(* JSON object with or without an "articles" list.  An entry of the list   *)
(* is an object or not; its digest_id is a string, "" or missing; its      *)
(* relevance_score is a number or not.                                     *)
(***************************************************************************)
NoScores == [x \in {} |-> 0]

Put(scores, did, sc) ==
    [x \in DOMAIN scores \cup {did} |-> IF x = did THEN sc ELSE scores[x]]

RECURSIVE ParseLoop(_, _)
ParseLoop(entries, scores) ==
    IF entries = <<>> THEN [ok |-> TRUE, err |-> "", scores |-> scores]
    ELSE LET item == Head(entries)
         IN  IF ~item.is_object
             THEN [ok |-> FALSE, err |-> "AttributeError", scores |-> NoScores]
             ELSE IF item.has_id = "str" /\ item.sc_numeric
                  THEN ParseLoop(Tail(entries), Put(scores, item.did, item.sc))
                  ELSE ParseLoop(Tail(entries), scores)

llm_score(sl, resp) ==
    CASE resp.kind = "service_error" ->
            [ok |-> FALSE, err |-> "APIError", scores |-> NoScores]
      [] resp.kind = "no_json" ->
            [ok |-> FALSE, err |-> "ValueError", scores |-> NoScores]
      [] resp.kind = "bad_json" ->
            [ok |-> FALSE, err |-> "JSONDecodeError", scores |-> NoScores]
      [] resp.kind = "object" ->
            ParseLoop(IF resp.has_articles THEN resp.articles ELSE <<>>, NoScores)

(***************************************************************************)
(* rank_digests: the merge, the fallback, the final sort and the ranks.    *)
(***************************************************************************)
\* The empty-pool check left out.
EmptyPoolNever(ds) == FALSE

EmptyPool(ds) == Len(ds) = 0

\* The score taken as it comes.
ClampNone(x) == x

Clamp(x) == Max2(0, Min2(100, x))

\* The fallback without its 3.0 base.
FallbackScoreNoBase(h) == Clamp(Min2(70, h))

FallbackScore(h) == Clamp(30 + Min2(70, h))

\* The merge with no heuristic fallback for an id the map lacks.
MergeRowsNoFallback(sl, scores) ==
    [i \in 1..Len(sl) |->
        IF sl[i].id \in DOMAIN scores
        THEN [digest_id |-> sl[i].id, score |-> Clamp(scores[sl[i].id]),
              reasoning |-> <<"LLM relevance score">>]
        ELSE [digest_id |-> sl[i].id, score |-> 0,
              reasoning |-> <<"Fallback heuristic (LLM did not return score)",
                              sl[i].heur_why>>]]

MergeRows(sl, scores) ==
    [i \in 1..Len(sl) |->
        IF sl[i].id \in DOMAIN scores
        THEN [digest_id |-> sl[i].id, score |-> Clamp(scores[sl[i].id]),
              reasoning |-> <<"LLM relevance score">>]
        ELSE [digest_id |-> sl[i].id, score |-> FallbackScore(sl[i].heur_score),
              reasoning |-> <<"Fallback heuristic (LLM did not return score)",
                              sl[i].heur_why>>]]

FallbackRows(sl) ==
    [i \in 1..Len(sl) |->
        [digest_id |-> sl[i].id, score |-> FallbackScore(sl[i].heur_score),
         reasoning |-> <<"Heuristic ranking (no LLM)", sl[i].heur_why>>]]

\* An ascending sort, then reversed: descending, but ties in reverse order.
FinalSortTiesReversed(rows) ==
    LET asc == ListSortReverse([i \in 1..Len(rows) |->
                                   [key |-> 0 - rows[i].score, val |-> rows[i]]])
    IN  [i \in 1..Len(asc) |-> asc[Len(asc) + 1 - i]]

FinalSort(rows) ==
    ListSortReverse([i \in 1..Len(rows) |-> [key |-> rows[i].score, val |-> rows[i]]])

\* enumerate without start=1.
AssignRanksFromZero(rows) ==
    [i \in 1..Len(rows) |->
        [digest_id |-> rows[i].digest_id, relevance_score |-> rows[i].score,
         rank |-> i - 1, reasoning |-> rows[i].reasoning]]

AssignRanks(rows) ==
    [i \in 1..Len(rows) |->
        [digest_id |-> rows[i].digest_id, relevance_score |-> rows[i].score,
         rank |-> i, reasoning |-> rows[i].reasoning]]

\* RankedArticle: relevance_score has ge=0.0, le=10.0 and rank has ge=1.
Validates(a) == a.relevance_score >= 0 /\ a.relevance_score <= 100 /\ a.rank >= 1

(***************************************************************************)
(* Inputs.  A pool is up to MaxVar digests drawn from Kinds, before or     *)
(* after a run of PRE_RANK_KEEP identical filler digests or with no filler *)
(* at all, so that pools both below and above the shortlist bound occur.   *)
(* Ids are unique: a digest's id is its position in the pool.  Ages are    *)
(* multiples of 8 hours, for which the recency bonus is exact in tenths.   *)
(***************************************************************************)
Kinds ==
    { [toks |-> {"webinar", "register", "limited", "launch", "partnership"},
       summary_len |-> 300, has_created_at |-> FALSE, age_h |-> 0],
      [toks |-> {"production", "deployment", "retrieval", "backend", "systems"},
       summary_len |-> 9000, has_created_at |-> TRUE, age_h |-> 0],
      [toks |-> {"retrieval", "latency", "webinar"},
       summary_len |-> 40, has_created_at |-> TRUE, age_h |-> 8] }

Filler == [toks |-> {}, summary_len |-> 40, has_created_at |-> TRUE, age_h |-> 48]

VarSeqs == UNION { [1..n -> Kinds] : n \in 0..MaxVar }

Padding(n) == [i \in 1..n |-> Filler]

WithIds(ks) ==
    [i \in 1..Len(ks) |->
        [id |-> i, toks |-> ks[i].toks, summary_len |-> ks[i].summary_len,
         has_created_at |-> ks[i].has_created_at, age_h |-> ks[i].age_h]]

Pools ==
    { WithIds(v \o Padding(n)) : v \in VarSeqs, n \in {0, PRE_RANK_KEEP} }
    \cup { WithIds(Padding(PRE_RANK_KEEP) \o v) : v \in VarSeqs }

Entry(obj, hasid, did, num, sc) ==
    [is_object |-> obj, has_id |-> hasid, did |-> did, sc_numeric |-> num, sc |-> sc]

Entries ==
    { Entry(TRUE, "str", 1, TRUE, 120),
      Entry(TRUE, "str", 2, TRUE, 75),
      Entry(TRUE, "str", PRE_RANK_KEEP + 2, TRUE, -5),
      Entry(TRUE, "empty", 0, TRUE, 50),
      Entry(TRUE, "missing", 0, TRUE, 50),
      Entry(TRUE, "str", 2, FALSE, 0),
      Entry(FALSE, "missing", 0, FALSE, 0) }

Resp(kind, has, arts) == [kind |-> kind, has_articles |-> has, articles |-> arts]

NoResponse == Resp("none", FALSE, <<>>)

Responses ==
    { Resp(k, FALSE, <<>>) : k \in {"service_error", "no_json", "bad_json", "object"} }
    \cup { Resp("object", TRUE, a) :
             a \in UNION { [1..n -> Entries] : n \in 0..MaxEntries } }

(***************************************************************************)
(* State after CuratorAgent.__init__: no call of rank_digests under way.   *)
(***************************************************************************)
RankIdle ==
    /\ pc = "idle"
    /\ digests = <<>>
    /\ shortlisted = <<>>
    /\ request = <<>>
    /\ requests = 0
    /\ response = NoResponse
    /\ path = "none"
    /\ failure = ""
    /\ llm_scores = NoScores
    /\ final_rows = <<>>
    /\ ranked = <<>>
    /\ raised = FALSE

PreRankIdle ==
    /\ pr_pc = "idle"
    /\ pr_arg = <<>>
    /\ pr_in = <<>>
    /\ pr_keep = 0
    /\ pr_out = <<>>

Init == RankIdle /\ PreRankIdle

(***************************************************************************)
(* rank_digests(digests), step by step.                                    *)
(***************************************************************************)
\* Lines 195-196: an empty pool returns [] at once.
RankDigestsEmpty(pool) ==
    /\ pc = "idle"
    /\ EmptyPool(pool)
    /\ pc' = "returned"
    /\ digests' = pool
    /\ ranked' = <<>>
    /\ UNCHANGED <<shortlisted, request, requests, response, path, failure,
                   llm_scores, final_rows, raised>>
    /\ UNCHANGED preRankVars

\* Lines 198-200: the shortlist.
RankDigestsPreRank(pool) ==
    /\ pc = "idle"
    /\ ~EmptyPool(pool)
    /\ pc' = "pre_ranked"
    /\ digests' = InputAfterPreRank(pool)
    /\ shortlisted' = pre_rank(pool, Min2(PRE_RANK_KEEP, Len(pool)))
    /\ UNCHANGED <<request, requests, response, path, failure, llm_scores,
                   final_rows, ranked, raised>>
    /\ UNCHANGED preRankVars

\* Lines 203-227: the external call, then the merge or the fallback.
ExternalScoring(resp) ==
    /\ pc = "pre_ranked"
    /\ request' = BuildRequest(shortlisted)
    /\ requests' = requests + 1
    /\ response' = resp
    /\ LET out == llm_score(shortlisted, resp)
       IN  IF out.ok
           THEN /\ path' = "external_scored"
                /\ failure' = ""
                /\ llm_scores' = out.scores
                /\ final_rows' = MergeRows(shortlisted, out.scores)
           ELSE /\ path' = "external_failed"
                /\ failure' = out.err
                /\ llm_scores' = NoScores
                /\ final_rows' = FallbackRows(shortlisted)
    /\ pc' = "scored"
    /\ UNCHANGED <<digests, shortlisted, ranked, raised>>
    /\ UNCHANGED preRankVars

\* Lines 229-241: sort, rank, build the RankedArticle list.
Finalize ==
    /\ pc = "scored"
    /\ LET out == AssignRanks(FinalSort(final_rows))
       IN  IF \A i \in 1..Len(out) : Validates(out[i])
           THEN ranked' = out /\ raised' = FALSE
           ELSE ranked' = <<>> /\ raised' = TRUE
    /\ pc' = "returned"
    /\ UNCHANGED <<digests, shortlisted, request, requests, response, path,
                   failure, llm_scores, final_rows>>
    /\ UNCHANGED preRankVars

\* The call is over; the coordinator is ready for the next one.
NextCall ==
    /\ pc = "returned"
    /\ pc' = "idle"
    /\ digests' = <<>>
    /\ shortlisted' = <<>>
    /\ request' = <<>>
    /\ requests' = 0
    /\ response' = NoResponse
    /\ path' = "none"
    /\ failure' = ""
    /\ llm_scores' = NoScores
    /\ final_rows' = <<>>
    /\ ranked' = <<>>
    /\ raised' = FALSE
    /\ UNCHANGED preRankVars

Next ==
    \/ \E pool \in Pools : RankDigestsEmpty(pool)
    \/ \E pool \in Pools : RankDigestsPreRank(pool)
    \/ \E resp \in Responses : ExternalScoring(resp)
    \/ Finalize
    \/ NextCall

Spec == Init /\ [][Next]_vars

(***************************************************************************)
(* _pre_rank(digests, keep) called on its own, for any keep in range.      *)
(***************************************************************************)
PreRankCall(pool, keep) ==
    /\ pr_pc = "idle"
    /\ pr_pc' = "returned"
    /\ pr_arg' = pool
    /\ pr_keep' = keep
    /\ pr_in' = InputAfterPreRank(pool)
    /\ pr_out' = pre_rank(pool, keep)
    /\ UNCHANGED rankVars

PreRankNextCall ==
    /\ pr_pc = "returned"
    /\ pr_pc' = "idle"
    /\ pr_arg' = <<>>
    /\ pr_keep' = 0
    /\ pr_in' = <<>>
    /\ pr_out' = <<>>
    /\ UNCHANGED rankVars

NextPreRank ==
    \/ \E pool \in Pools : \E keep \in 0..Len(pool) : PreRankCall(pool, keep)
    \/ PreRankNextCall

SpecPreRank == Init /\ [][NextPreRank]_vars

(***************************************************************************)
(* Vocabulary of the properties.                                           *)
(***************************************************************************)
ShortIds == { shortlisted[k].id : k \in 1..Len(shortlisted) }

RankedIds == { ranked[i].digest_id : i \in 1..Len(ranked) }

ShortPos(id) == CHOOSE k \in 1..Len(shortlisted) : shortlisted[k].id = id

HeurOf(id) == shortlisted[ShortPos(id)].heur_score

\* clamp(3.0 + min(7.0, h), 0, 10), written out.
ExpectedFallback(h) ==
    LET capped == IF h < 70 THEN h ELSE 70
        sum    == 30 + capped
    IN  IF sum < 0 THEN 0 ELSE IF sum > 100 THEN 100 ELSE sum

ExpectedClamp(x) == IF x < 0 THEN 0 ELSE IF x > 100 THEN 100 ELSE x

ExternalReason == <<"LLM relevance score">>

FailureKinds == {"service_error", "no_json", "bad_json"}

WellFormed(e) == e.is_object /\ e.has_id = "str" /\ e.sc_numeric

\* C1: for a non-empty pool and any outcome of the external call, the ranks
\* of the returned list are 1, 2, ..., N in list order, N = min(pool size,
\* 25), with exactly one result per shortlisted id.
C1_RanksDense ==
    (pc = "returned" /\ digests # <<>>) =>
        /\ ~raised
        /\ Len(ranked) = Min2(Len(digests), PRE_RANK_KEEP)
        /\ Len(ranked) = Len(shortlisted)
        /\ \A i \in 1..Len(ranked) : ranked[i].rank = i
        /\ \A k \in 1..Len(shortlisted) :
              Cardinality({ i \in 1..Len(ranked) :
                              ranked[i].digest_id = shortlisted[k].id }) = 1

C1_Witness ==
    /\ pc = "returned"
    /\ Len(digests) > PRE_RANK_KEEP
    /\ Len(ranked) = PRE_RANK_KEEP
    /\ path = "external_scored"
    /\ DOMAIN llm_scores \cap ShortIds # {}
    /\ ShortIds \ DOMAIN llm_scores # {}

\* C2: every relevance score of the output lies in [0.0, 10.0], on the
\* external path, the per-item fallback and the global fallback alike.
C2_ScoresInRange ==
    (pc \in {"scored", "returned"}) =>
        /\ ~raised
        /\ \A i \in 1..Len(final_rows) :
              final_rows[i].score >= 0 /\ final_rows[i].score <= 100
        /\ \A i \in 1..Len(ranked) :
              ranked[i].relevance_score >= 0 /\ ranked[i].relevance_score <= 100

C2_Witness ==
    /\ pc = "returned"
    /\ Len(ranked) > 0
    /\ \E id \in ShortIds \cap DOMAIN llm_scores : llm_scores[id] > 100
    /\ \E id \in ShortIds \ DOMAIN llm_scores : 30 + HeurOf(id) < 0
    /\ \E id \in ShortIds : HeurOf(id) > 70

\* C3: when the external call fails (service error or parse error) on a
\* non-empty pool, no exception leaves rank_digests and each of the N
\* shortlisted items is returned with clamp(3.0 + min(7.0, h), 0, 10) for its
\* own heuristic score h, none with an external score.
C3_FailureFallsBack ==
    (pc = "returned" /\ (response.kind \in FailureKinds \/ path = "external_failed")) =>
        /\ ~raised
        /\ path = "external_failed"
        /\ Len(ranked) = Len(shortlisted)
        /\ Len(ranked) = Min2(Len(digests), PRE_RANK_KEEP)
        /\ RankedIds = ShortIds
        /\ \A i \in 1..Len(ranked) :
              /\ ranked[i].relevance_score = ExpectedFallback(HeurOf(ranked[i].digest_id))
              /\ ranked[i].reasoning # ExternalReason

C3_Witness ==
    /\ pc = "returned"
    /\ response.kind = "bad_json"
    /\ Len(ranked) > 1
    /\ \E id \in ShortIds : HeurOf(id) > 70
    /\ \E id \in ShortIds : HeurOf(id) < 0

\* C4: when the external call succeeds with scores for a subset S of the
\* shortlisted ids, items in S get the external score clamped to [0, 10],
\* items outside S get the fallback score from their own heuristic score, no
\* row carries the rationale of the failure path, and an id of the map that
\* is not shortlisted gets no row.
C4_PartialMapMerged ==
    (pc = "returned" /\ path = "external_scored") =>
        /\ ~raised
        /\ RankedIds = ShortIds
        /\ DOMAIN llm_scores =
              { response.articles[n].did :
                  n \in { m \in 1..Len(response.articles) :
                            WellFormed(response.articles[m]) } }
        /\ \A id \in DOMAIN llm_scores :
              LET last == CHOOSE n \in 1..Len(response.articles) :
                              /\ WellFormed(response.articles[n])
                              /\ response.articles[n].did = id
                              /\ \A m \in (n + 1)..Len(response.articles) :
                                    ~(WellFormed(response.articles[m])
                                      /\ response.articles[m].did = id)
              IN  llm_scores[id] = response.articles[last].sc
        /\ \A i \in 1..Len(ranked) :
              LET id == ranked[i].digest_id
              IN  IF id \in DOMAIN llm_scores
                  THEN /\ ranked[i].relevance_score = ExpectedClamp(llm_scores[id])
                       /\ ranked[i].reasoning = ExternalReason
                  ELSE /\ ranked[i].relevance_score = ExpectedFallback(HeurOf(id))
                       /\ ranked[i].reasoning[1] =
                              "Fallback heuristic (LLM did not return score)"

C4_Witness ==
    /\ pc = "returned"
    /\ path = "external_scored"
    /\ ShortIds \cap DOMAIN llm_scores # {}
    /\ ShortIds \ DOMAIN llm_scores # {}
    /\ DOMAIN llm_scores \ ShortIds # {}

\* C5: the returned list is the stable descending sort of the shortlist by
\* final score: scores do not increase along the list, and items of equal
\* score keep their shortlist order.
C5_StableDescending ==
    (pc = "returned") =>
        \A i \in 1..Len(ranked) : \A j \in (i + 1)..Len(ranked) :
            /\ ranked[i].relevance_score >= ranked[j].relevance_score
            /\ ranked[i].relevance_score = ranked[j].relevance_score =>
                  ShortPos(ranked[i].digest_id) < ShortPos(ranked[j].digest_id)

C5_Witness ==
    /\ pc = "returned"
    /\ \E i \in 1..Len(ranked) : ranked[i].digest_id # shortlisted[i].id
    /\ \E i \in 1..Len(ranked) : \E j \in (i + 1)..Len(ranked) :
          /\ ranked[i].relevance_score = ranked[j].relevance_score
          /\ HeurOf(ranked[i].digest_id) # HeurOf(ranked[j].digest_id)
    /\ \E i \in 1..(Len(ranked) - 1) :
          ranked[i].relevance_score > ranked[i + 1].relevance_score

\* C6: a call with an empty pool returns an empty list and never reaches the
\* pre-ranked state or the external call.
C6_EmptyPoolNoCall ==
    (pc # "idle" /\ digests = <<>>) =>
        /\ pc = "returned"
        /\ ranked = <<>>
        /\ ~raised
        /\ shortlisted = <<>>
        /\ requests = 0
        /\ request = <<>>
        /\ response = NoResponse

C6_Witness == pc = "returned" /\ digests = <<>> /\ ranked = <<>> /\ requests = 0

\* C7: a malformed entry of the articles list (missing or empty digest_id,
\* non-numeric relevance_score, or not an object) is skipped alone: the call
\* still succeeds and every well-formed entry's score reaches the output.
C7_MalformedEntriesSkipped ==
    (pc = "returned" /\ response.kind = "object" /\ response.has_articles) =>
        /\ path = "external_scored"
        /\ \A n \in 1..Len(response.articles) :
              LET e == response.articles[n]
              IN  (WellFormed(e) /\ e.did \in ShortIds) =>
                      \E i \in 1..Len(ranked) :
                          /\ ranked[i].digest_id = e.did
                          /\ ranked[i].reasoning = ExternalReason

\* C8: a JSON object without a top-level articles list is a parse error: the
\* coordinator takes the failure path and every rationale is that of the
\* pure heuristic fallback.
C8_MissingArticlesFails ==
    (pc = "returned" /\ response.kind = "object" /\ ~response.has_articles) =>
        /\ path = "external_failed"
        /\ \A i \in 1..Len(ranked) :
              ranked[i].reasoning[1] = "Heuristic ranking (no LLM)"

\* C9: the request caps the content of every item block: some fixed maximum,
\* below the longest summary a digest can have, bounds the summary text sent
\* for each shortlisted item.
SummaryLens == { k.summary_len : k \in Kinds \cup {Filler} }

C9_RequestItemsCapped ==
    (requests > 0) =>
        \E cap \in SummaryLens :
            /\ \E longer \in SummaryLens : longer > cap
            /\ \A i \in 1..Len(request) : request[i].summary_len <= cap

\* C10: for 0 <= keep <= pool size, _pre_rank returns the first keep
\* elements of the pool sorted stably by heuristic score descending, each an
\* annotated copy, and leaves its input as it was; with keep = min(25, pool
\* size) the result has at most 25 items and is the whole pool when the pool
\* has at most 25.
PoolHeur(k) == heuristic_score(pr_arg[k]).score

\* Pool position k comes before pool position m in the stable descending order.
Before(k, m) == PoolHeur(k) > PoolHeur(m) \/ (PoolHeur(k) = PoolHeur(m) /\ k < m)

C10_PreRankTopKeep ==
    (pr_pc = "returned") =>
        /\ Len(pr_out) = pr_keep
        /\ pr_in = pr_arg
        /\ \A i \in 1..Len(pr_out) :
              LET k == pr_out[i].id
              IN  /\ k \in 1..Len(pr_arg)
                  /\ pr_out[i].toks = pr_arg[k].toks
                  /\ pr_out[i].summary_len = pr_arg[k].summary_len
                  /\ pr_out[i].has_created_at = pr_arg[k].has_created_at
                  /\ pr_out[i].age_h = pr_arg[k].age_h
                  /\ pr_out[i].heur_score = PoolHeur(k)
                  /\ pr_out[i].heur_why = heuristic_score(pr_arg[k]).why
                  \* exactly the positions before k in the order precede it
                  /\ Cardinality({ m \in 1..Len(pr_arg) : Before(m, k) }) = i - 1
        /\ (pr_keep = Min2(PRE_RANK_KEEP, Len(pr_arg))) =>
              /\ Len(pr_out) <= PRE_RANK_KEEP
              /\ Len(pr_arg) <= PRE_RANK_KEEP =>
                    { pr_out[i].id : i \in 1..Len(pr_out) } = 1..Len(pr_arg)

C10_Witness ==
    /\ pr_pc = "returned"
    /\ Len(pr_arg) > PRE_RANK_KEEP
    /\ pr_keep = PRE_RANK_KEEP
    /\ Len(pr_out) = PRE_RANK_KEEP
    /\ \E i \in 1..Len(pr_out) : pr_out[i].id # i
    /\ \E i \in 1..(Len(pr_out) - 1) : pr_out[i].heur_score = pr_out[i + 1].heur_score
    /\ \E k \in 1..Len(pr_arg) : \A i \in 1..Len(pr_out) :
          pr_out[i].id # k /\ pr_out[i].heur_score > PoolHeur(k)

====
